---- MODULE Spec2Model ----
(***************************************************************************)
(* DDPG trainer of pytorchrl/algos/ddpg.py: the training loop train(), the *)
(* update step do_training() with its two gradient steps, and the soft     *)
(* synchronisation of the target networks.                                 *)
(*                                                                         *)
(* Real-valued quantities (rewards, parameters, Q-values, tau, discount)   *)
(* are exact rationals <<numerator, denominator>> in lowest terms.         *)
(***************************************************************************)
EXTENDS Integers, Sequences, FiniteSets, TLC

(* ------------------------------ bounds --------------------------------- *)
NEpochs == 2
EpochLength == 2
MaxPathLen == 2
MaxUpdates == 2
BatchSize == 1
ReplayPoolSize == 3

(* ------------------------- exact rational numbers ---------------------- *)
Abs(n) == IF n < 0 THEN -n ELSE n

RECURSIVE GCD(_, _)
GCD(a, b) == IF b = 0 THEN a ELSE GCD(b, a % b)

Rat(n, d) ==
    LET g == GCD(Abs(n), Abs(d))
        s == IF d < 0 THEN -1 ELSE 1
    IN  <<(s * n) \div g, (s * d) \div g>>

RatInt(n) == <<n, 1>>

RatAdd(x, y) ==
    LET l == x[2] * (y[2] \div GCD(x[2], y[2]))
    IN  Rat(x[1] * (l \div x[2]) + y[1] * (l \div y[2]), l)

RatNeg(x) == <<-x[1], x[2]>>

RatSub(x, y) == RatAdd(x, RatNeg(y))

RatMul(x, y) ==
    LET g1 == GCD(Abs(x[1]), y[2])
        g2 == GCD(Abs(y[1]), x[2])
    IN  Rat((x[1] \div g1) * (y[1] \div g2), (x[2] \div g2) * (y[2] \div g1))

One == RatInt(1)

(* --------------------------- input domains ----------------------------- *)
ResetObservations == {0}
Actions == {1}
\* what env.step may return: <<next observation, reward, terminal>>
StepOutcomes == {<<0, 1, FALSE>>, <<1, 2, FALSE>>, <<1, 1, TRUE>>}
ScaleRewards == {3}
Taus == {<<0, 1>>, <<1, 2>>, <<1, 1>>}
Discounts == {<<1, 2>>}
GradSteps == {1}

VARIABLES
    cfg,               \* the constructor's arguments kept on self
    refs,              \* self.policy, self.qf, self.target_policy, self.target_qf: object identities
    heap,              \* parameter values of each network object
    pc,                \* position of train()
    epoch, epoch_itr, itr, update_itr,
    path_length, path_return, terminal,
    observation, next_observation, action, reward,
    env_terminal,      \* the terminal flag env.step returned, before line 140 overwrites it
    pool,              \* SimpleReplayPool contents, oldest first
    env_steps,         \* env.step calls since the last env.reset
    es_actions,        \* es.get_action calls since the last es.reset
    action_obs,        \* the observation handed to the last es.get_action
    last_added,        \* samples the last environment step handed to pool.add_sample
    n_trained,         \* do_training calls since the last environment step
    batch, batch_fresh,
    next_qvals, ys,
    call_log,          \* steps of the current do_training call, in order
    heap_at_call,      \* the parameters of every network when do_training was entered
    evaluated, snapshots

vars == <<cfg, refs, heap, pc, epoch, epoch_itr, itr, update_itr,
          path_length, path_return, terminal, observation, next_observation,
          action, reward, env_terminal, pool, env_steps,
          es_actions, action_obs, last_added, n_trained, batch, batch_fresh,
          next_qvals, ys, call_log, heap_at_call, evaluated, snapshots>>

trainVars == <<epoch, epoch_itr, itr, path_length, path_return, terminal,
               observation, next_observation, action, reward, env_terminal,
               pool, env_steps, es_actions, action_obs,
               last_added>>

(* ------------------------- networks and parameters --------------------- *)
\* the target bound to the live network object itself
DeepCopy_alias(h, src) == [heap |-> h, ref |-> src]

\* copy.deepcopy of a network: a new object holding equal parameter values
DeepCopy(h, src) == [heap |-> Append(h, h[src]), ref |-> Len(h) + 1]

PolicyParams == heap[refs.policy]
QfParams == heap[refs.qf]
TargetPolicyParams == heap[refs.target_policy]
TargetQfParams == heap[refs.target_qf]

RECURSIVE SumParams(_)
SumParams(p) == IF p = <<>> THEN RatInt(0) ELSE RatAdd(Head(p), SumParams(Tail(p)))

\* forward evaluation of the actor and of the critic
PolicyForward(theta, obs) == RatAdd(SumParams(theta), RatInt(obs))
QfForward(w, obs, act) == RatAdd(SumParams(w), RatAdd(RatInt(obs), act))

\* first * (1 - rate) + second * rate, elementwise
running_average_tensor_list(first, second, rate) ==
    [i \in 1..Len(first) |->
        RatAdd(RatMul(first[i], RatSub(One, rate)), RatMul(second[i], rate))]

\* one optimizer step on a parameter list
OptimizerStep(p, d) == [i \in 1..Len(p) |-> RatAdd(p[i], RatInt(d))]

(* ------------------------------ replay pool ---------------------------- *)
AddSample(p, s) ==
    IF Len(p) >= cfg.replay_pool_size THEN Append(Tail(p), s) ELSE Append(p, s)

\* the transition stored at index i, its successor's observation as next observation
Transition(p, i) ==
    [obs |-> p[i].obs, act |-> p[i].act, rew |-> p[i].rew,
     next_obs |-> p[i + 1].obs, term |-> p[i].term]

(* -------------------------------- Init --------------------------------- *)
InitHeap == <<<<RatInt(1), RatInt(2)>>, <<RatInt(3), RatInt(5)>>>>

Init ==
    /\ cfg \in [batch_size : {BatchSize},
                n_epoch : {NEpochs},
                epoch_length : {EpochLength},
                min_pool_size : {BatchSize + 1},
                replay_pool_size : {ReplayPoolSize},
                discount : Discounts,
                max_path_length : {MaxPathLen},
                soft_target_tau : Taus,
                n_updates_per_sample : {MaxUpdates},
                scale_reward : ScaleRewards,
                include_horizon_terminal_transitions : BOOLEAN]
    /\ LET tq == DeepCopy(InitHeap, 2)
           tp == DeepCopy(tq.heap, 1)
       IN  /\ refs = [policy |-> 1, qf |-> 2,
                      target_qf |-> tq.ref, target_policy |-> tp.ref]
           /\ heap = tp.heap
    /\ pc = "begin_step"
    /\ epoch = 0 /\ epoch_itr = 0 /\ itr = 0 /\ update_itr = 0
    /\ path_length = 0 /\ path_return = 0 /\ terminal = FALSE
    /\ observation \in ResetObservations
    /\ next_observation = observation
    /\ action = 1 /\ reward = 0 /\ env_terminal = FALSE
    /\ pool = <<>>
    /\ env_steps = 0 /\ es_actions = 0
    /\ action_obs = observation
    /\ last_added = <<>>
    /\ n_trained = 0
    /\ batch = <<>> /\ batch_fresh = FALSE
    /\ next_qvals = <<>> /\ ys = <<>>
    /\ call_log = <<>>
    /\ heap_at_call = <<>>
    /\ evaluated = {} /\ snapshots = {}

(* ------------------------------- train() ------------------------------- *)
\* the reset taken only when the environment itself ended the episode
ResetDue_envOnly == env_terminal

\* line 119
ResetDue == terminal

\* the horizon test made strict
HorizonReached_strict(t, length) == ~t /\ length > cfg.max_path_length

\* line 139
HorizonReached(t, length) == ~t /\ length >= cfg.max_path_length

\* the reward stored unscaled
ScaledReward_raw(r) == r

\* lines 143, 145: the reward handed to the pool
ScaledReward(r) == r * cfg.scale_reward

\* the truncated transition kept whatever the flag says
StoredSamples_keep(o, a, r, t, length) ==
    <<[obs |-> o, act |-> a, rew |-> ScaledReward(r),
       term |-> (t \/ HorizonReached(t, length))]>>

\* lines 139-145: the samples handed to pool.add_sample for one step
StoredSamples(o, a, r, t, length) ==
    IF HorizonReached(t, length)
    THEN IF cfg.include_horizon_terminal_transitions
         THEN <<[obs |-> o, act |-> a, rew |-> ScaledReward(r), term |-> TRUE]>>
         ELSE <<>>
    ELSE <<[obs |-> o, act |-> a, rew |-> ScaledReward(r), term |-> t]>>

\* the warm-up test made strict
UpdateDue_strict ==
    /\ Len(pool) > cfg.min_pool_size
    /\ update_itr < cfg.n_updates_per_sample

\* lines 149-150
UpdateDue ==
    /\ Len(pool) >= cfg.min_pool_size
    /\ update_itr < cfg.n_updates_per_sample

\* evaluation run at every epoch end
EvaluationDue_always == TRUE

\* line 158
EvaluationDue == Len(pool) >= cfg.min_pool_size

\* lines 119-127: reset after a terminal step (the log of finished returns,
\* line 125, is written here and read nowhere in the loop: not modelled)
BeginStep ==
    /\ pc = "begin_step"
    /\ IF ResetDue
       THEN /\ \E o \in ResetObservations : observation' = o
            /\ env_steps' = 0
            /\ es_actions' = 0
            /\ path_length' = 0
            /\ path_return' = 0
       ELSE UNCHANGED <<observation, env_steps, es_actions, path_length, path_return>>
    /\ pc' = "get_action"
    /\ UNCHANGED <<cfg, refs, heap, epoch, epoch_itr, itr, update_itr, terminal,
                   next_observation, action, reward, env_terminal, pool,
                   action_obs, last_added, n_trained, batch, batch_fresh,
                   next_qvals, ys, call_log, heap_at_call, evaluated, snapshots>>

\* line 129
GetAction ==
    /\ pc = "get_action"
    /\ \E a \in Actions : action' = a
    /\ action_obs' = observation
    /\ es_actions' = es_actions + 1
    /\ pc' = "env_step"
    /\ UNCHANGED <<cfg, refs, heap, epoch, epoch_itr, itr, update_itr,
                   path_length, path_return, terminal, observation,
                   next_observation, reward, env_terminal, pool,
                   env_steps, last_added, n_trained, batch,
                   batch_fresh, next_qvals, ys, call_log, heap_at_call, evaluated, snapshots>>

\* lines 131-147: step the environment, store or drop the transition
EnvStep ==
    /\ pc = "env_step"
    /\ \E out \in StepOutcomes :
         LET o == out[1]
             r == out[2]
             t == out[3]
             length == path_length + 1
             added == StoredSamples(observation, action, r, t, length)
         IN  /\ next_observation' = o
             /\ reward' = r
             /\ env_terminal' = t
             /\ path_length' = length
             /\ path_return' = path_return + r
             /\ terminal' = (t \/ HorizonReached(t, length))
             /\ pool' = IF added = <<>> THEN pool ELSE AddSample(pool, added[1])
             /\ last_added' = added
             /\ observation' = o
    /\ env_steps' = env_steps + 1
    /\ n_trained' = 0
    /\ update_itr' = 0
    /\ pc' = "update_loop"
    /\ UNCHANGED <<cfg, refs, heap, epoch, epoch_itr, itr, action,
                   es_actions, action_obs, batch, batch_fresh,
                   next_qvals, ys, call_log, heap_at_call, evaluated, snapshots>>

\* lines 149-152: the update loop draws a mini-batch for each update
RandomBatch ==
    /\ pc = "update_loop"
    /\ UpdateDue
    /\ \E idx \in [1..cfg.batch_size -> 1..(Len(pool) - 1)] :
         batch' = [k \in 1..cfg.batch_size |-> Transition(pool, idx[k])]
    /\ batch_fresh' = TRUE
    /\ call_log' = <<>>
    /\ heap_at_call' = heap
    /\ pc' = "do_training"
    /\ UNCHANGED <<cfg, refs, heap, update_itr, n_trained, next_qvals, ys,
                   evaluated, snapshots>>
    /\ UNCHANGED trainVars

\* lines 149-155: no update is due (any more); itr += 1 and the next iteration
EndStep ==
    /\ pc = "update_loop"
    /\ ~UpdateDue
    /\ itr' = itr + 1
    /\ IF epoch_itr + 1 < cfg.epoch_length
       THEN /\ epoch_itr' = epoch_itr + 1
            /\ pc' = "begin_step"
       ELSE /\ epoch_itr' = epoch_itr
            /\ pc' = "epoch_end"
    /\ UNCHANGED <<cfg, refs, heap, epoch, update_itr, path_length, path_return,
                   terminal, observation, next_observation, action, reward,
                   env_terminal, pool, env_steps, es_actions,
                   action_obs, last_added, n_trained, batch, batch_fresh,
                   next_qvals, ys, call_log, heap_at_call, evaluated, snapshots>>

(* ----------------------------- do_training() --------------------------- *)
\* lines 79-80: the objects whose parameters qf_optimizer steps
QfOptimizerParams == {refs.qf}

\* policy_optimizer built over the actor's and the critic's parameters
PolicyOptimizerParams_both == {refs.policy, refs.qf}

\* lines 81-82: the objects whose parameters policy_optimizer steps
PolicyOptimizerParams == {refs.policy}

\* an optimizer's step() on the objects it was built over
Stepped(h, objs, d) ==
    [o \in DOMAIN h |-> IF o \in objs THEN OptimizerStep(h[o], d) ELSE h[o]]

\* the two parameter lists handed over in the other order
SoftTarget_swapped(target, live) ==
    running_average_tensor_list(live, target, cfg.soft_target_tau)

\* lines 185-188, 191-194: the new value of a target given its live network
SoftTarget(target, live) ==
    running_average_tensor_list(target, live, cfg.soft_target_tau)

\* lines 174-175: the target critic at the next observation and the target actor's action
NextQval(tr) ==
    QfForward(TargetQfParams, tr.next_obs,
              PolicyForward(TargetPolicyParams, tr.next_obs))

\* the bootstrap term kept on terminal transitions
RegressionTarget_noMask(rew, term, next_q) ==
    RatAdd(RatInt(rew), RatMul(cfg.discount, next_q))

\* lines 177-179: ys = rewards + (1.0 - terminals) * discount * next_qvals
RegressionTarget(rew, term, next_q) ==
    LET terminals_mask == RatSub(One, RatInt(IF term THEN 1 ELSE 0))
    IN  RatAdd(RatInt(rew), RatMul(RatMul(terminals_mask, cfg.discount), next_q))

\* lines 166-179
ComputeTargets ==
    /\ pc = "do_training"
    /\ next_qvals' = [k \in 1..Len(batch) |-> NextQval(batch[k])]
    /\ ys' = [k \in 1..Len(batch) |->
                RegressionTarget(batch[k].rew, batch[k].term, next_qvals'[k])]
    /\ n_trained' = n_trained + 1
    /\ batch_fresh' = FALSE
    /\ call_log' = <<"targets">>
    /\ pc' = "train_qf"
    /\ UNCHANGED <<cfg, refs, heap, update_itr, batch, heap_at_call,
                   evaluated, snapshots>>
    /\ UNCHANGED trainVars

\* lines 181, 196-226: qf_optimizer steps the parameters of self.qf
TrainQf ==
    /\ pc = "train_qf"
    /\ \E d \in GradSteps :
         heap' = Stepped(heap, QfOptimizerParams, d)
    /\ call_log' = Append(call_log, "train_qf")
    /\ pc' = "train_policy"
    /\ UNCHANGED <<cfg, refs, update_itr, n_trained, batch, batch_fresh,
                   next_qvals, ys, heap_at_call, evaluated, snapshots>>
    /\ UNCHANGED trainVars

\* lines 182, 228-239: policy_optimizer steps the parameters of self.policy
TrainPolicy ==
    /\ pc = "train_policy"
    /\ \E d \in GradSteps :
         heap' = Stepped(heap, PolicyOptimizerParams, d)
    /\ call_log' = Append(call_log, "train_policy")
    /\ pc' = "sync_target_policy"
    /\ UNCHANGED <<cfg, refs, update_itr, n_trained, batch, batch_fresh,
                   next_qvals, ys, heap_at_call, evaluated, snapshots>>
    /\ UNCHANGED trainVars

\* lines 184-188
SyncTargetPolicy ==
    /\ pc = "sync_target_policy"
    /\ heap' = [heap EXCEPT ![refs.target_policy] =
                  SoftTarget(TargetPolicyParams, PolicyParams)]
    /\ call_log' = Append(call_log, "sync_target_policy")
    /\ pc' = "sync_target_qf"
    /\ UNCHANGED <<cfg, refs, update_itr, n_trained, batch, batch_fresh,
                   next_qvals, ys, heap_at_call, evaluated, snapshots>>
    /\ UNCHANGED trainVars

\* lines 190-194, then the next iteration of the update loop (line 150)
SyncTargetQf ==
    /\ pc = "sync_target_qf"
    /\ heap' = [heap EXCEPT ![refs.target_qf] =
                  SoftTarget(TargetQfParams, QfParams)]
    /\ call_log' = Append(call_log, "sync_target_qf")
    /\ update_itr' = update_itr + 1
    /\ batch' = <<>> /\ next_qvals' = <<>> /\ ys' = <<>>
    /\ heap_at_call' = <<>>
    /\ pc' = "update_loop"
    /\ UNCHANGED <<cfg, refs, n_trained, batch_fresh, evaluated, snapshots>>
    /\ UNCHANGED trainVars

(* ------------------------------ epoch end ------------------------------ *)
\* lines 157-158
EndEpoch ==
    /\ pc = "epoch_end"
    /\ pc' = IF EvaluationDue THEN "evaluate" ELSE "epoch_close"
    /\ UNCHANGED <<cfg, refs, heap, update_itr, n_trained, batch, batch_fresh,
                   next_qvals, ys, call_log, heap_at_call, evaluated, snapshots>>
    /\ UNCHANGED trainVars

\* lines 159, 241-247
Evaluate ==
    /\ pc = "evaluate"
    /\ evaluated' = evaluated \cup {epoch}
    /\ pc' = "snapshot"
    /\ UNCHANGED <<cfg, refs, heap, update_itr, n_trained, batch, batch_fresh,
                   next_qvals, ys, call_log, heap_at_call, snapshots>>
    /\ UNCHANGED trainVars

\* lines 160-161, 250-258
Snapshot ==
    /\ pc = "snapshot"
    /\ snapshots' = snapshots \cup {epoch}
    /\ pc' = "epoch_close"
    /\ UNCHANGED <<cfg, refs, heap, update_itr, n_trained, batch, batch_fresh,
                   next_qvals, ys, call_log, heap_at_call, evaluated>>
    /\ UNCHANGED trainVars

\* lines 162-164, 114-117: the next epoch, or env.terminate()
NextEpoch ==
    /\ pc = "epoch_close"
    /\ IF epoch + 1 < cfg.n_epoch
       THEN /\ epoch' = epoch + 1
            /\ epoch_itr' = 0
            /\ pc' = "begin_step"
       ELSE /\ UNCHANGED <<epoch, epoch_itr>>
            /\ pc' = "done"
    /\ UNCHANGED <<cfg, refs, heap, itr, update_itr, path_length, path_return,
                   terminal, observation, next_observation, action, reward,
                   env_terminal, pool, env_steps, es_actions,
                   action_obs, last_added, n_trained, batch, batch_fresh,
                   next_qvals, ys, call_log, heap_at_call, evaluated, snapshots>>

Next ==
    \/ BeginStep
    \/ GetAction
    \/ EnvStep
    \/ RandomBatch
    \/ EndStep
    \/ ComputeTargets
    \/ TrainQf
    \/ TrainPolicy
    \/ SyncTargetPolicy
    \/ SyncTargetQf
    \/ EndEpoch
    \/ Evaluate
    \/ Snapshot
    \/ NextEpoch

Spec == Init /\ [][Next]_vars

(* ======================================================================= *)
(*                              Properties                                 *)
(* ======================================================================= *)
\* an environment step has been taken in the current iteration of line 117
StepTaken == pc \notin {"begin_step", "get_action", "env_step", "done"}

\* the last step hit max_path_length without the environment ending the episode
Truncated == ~env_terminal /\ path_length >= cfg.max_path_length

\* the sample line 143/145 builds for the last step, with terminal flag t
StepSample(t) ==
    [obs |-> action_obs, act |-> action, rew |-> reward * cfg.scale_reward,
     term |-> t]

\* C1: a step truncated at max_path_length is forced terminal and is stored
\* (with terminal = TRUE) only if include_horizon_terminal_transitions is set,
\* otherwise nothing is handed to the pool; every other step hands the pool
\* exactly one sample carrying the environment's terminal flag.
C1_StoreOrDrop ==
    StepTaken =>
        IF Truncated
        THEN /\ terminal
             /\ IF cfg.include_horizon_terminal_transitions
                THEN /\ last_added = <<StepSample(TRUE)>>
                     /\ pool[Len(pool)] = StepSample(TRUE)
                ELSE last_added = <<>>
        ELSE /\ terminal = env_terminal
             /\ last_added = <<StepSample(env_terminal)>>
             /\ pool[Len(pool)] = StepSample(env_terminal)

\* a truncated step was dropped while the pool already held samples
C1_Witness ==
    /\ pc = "update_loop"
    /\ Truncated
    /\ ~cfg.include_horizon_terminal_transitions
    /\ last_added = <<>>
    /\ Len(pool) > 0

\* C2: after a terminal step the environment and the exploration strategy are
\* reset and path_length and path_return are 0 before the next get_action;
\* after a non-terminal step nothing is reset and the action is chosen from the
\* observation the previous env.step returned.
C2_ResetBeforeAction ==
    (pc = "env_step" /\ itr > 0) =>
        IF terminal
        THEN /\ path_length = 0
             /\ path_return = 0
             /\ env_steps = 0
             /\ es_actions = 1
             /\ action_obs \in ResetObservations
        ELSE /\ action_obs = next_observation
             /\ path_length >= 1
             /\ path_return >= path_length
             /\ env_steps = path_length
             /\ es_actions >= 2

\* the first action of an epoch after the first follows a forced terminal step
C2_Witness ==
    /\ pc = "env_step"
    /\ epoch > 0 /\ epoch_itr = 0
    /\ terminal /\ ~env_terminal
    /\ path_length = 0

\* C6: a stored sample carries raw_reward * scale_reward, on both branches,
\* and path_return grows by the unscaled raw_reward.
C6_RewardScaling ==
    /\ [](StepTaken =>
            \A k \in 1..Len(last_added) :
                last_added[k].rew = reward * cfg.scale_reward)
    /\ [][pc = "env_step" => path_return' = path_return + reward']_vars

\* a truncated step stored a scaled reward that differs from the raw one
C6_Witness ==
    /\ pc = "update_loop"
    /\ Truncated
    /\ last_added # <<>>
    /\ last_added[1].rew # reward
    /\ reward = 2
    /\ path_return = 3

\* C10: 0 <= path_length <= max_path_length; when path_length has reached
\* max_path_length the step is terminal, and the reset precedes the next
\* increment.
C10_PathLengthBounded ==
    /\ 0 <= path_length
    /\ path_length <= cfg.max_path_length
    /\ (path_length = cfg.max_path_length => terminal)
    /\ ((pc \in {"get_action", "env_step"} /\ terminal) => path_length = 0)

\* the environment itself ended an episode at the horizon, in a later epoch
C10_Witness ==
    /\ path_length = cfg.max_path_length
    /\ env_terminal
    /\ epoch > 0
    /\ pc = "update_loop"

\* the value the target networks give the next observation of transition tr
TargetValue(tr) ==
    RatAdd(SumParams(TargetQfParams),
           RatAdd(RatInt(tr.next_obs),
                  RatAdd(SumParams(TargetPolicyParams), RatInt(tr.next_obs))))

\* C3: y = reward + (1 - terminal) * discount * next_q for every transition of
\* the mini-batch, next_q being the target critic at the next observation and
\* the target actor's action: the stored reward alone when terminal = 1,
\* reward + discount * next_q when terminal = 0.
C3_RegressionTarget ==
    pc = "train_qf" =>
        /\ Len(ys) = Len(batch)
        /\ Len(next_qvals) = Len(batch)
        /\ \A k \in 1..Len(batch) :
             /\ next_qvals[k] = TargetValue(batch[k])
             /\ \E i \in 1..Len(pool) : batch[k].rew = pool[i].rew
             /\ batch[k].term => ys[k] = <<batch[k].rew, 1>>
             /\ ~batch[k].term =>
                    ys[k] = RatAdd(<<batch[k].rew, 1>>,
                                   RatMul(cfg.discount, next_qvals[k]))

\* a terminal transition whose next_q is not zero got its reward as target
C3_Witness ==
    /\ pc = "train_qf"
    /\ \E k \in 1..Len(batch) :
         /\ batch[k].term
         /\ next_qvals[k][1] # 0
         /\ ys[k] = <<batch[k].rew, 1>>

\* tau * a + (1 - tau) * b
Blend(a, b) ==
    RatAdd(RatMul(cfg.soft_target_tau, a),
           RatMul(RatSub(<<1, 1>>, cfg.soft_target_tau), b))

Tracks(newTarget, target, live) ==
    /\ Len(newTarget) = Len(target)
    /\ \A i \in 1..Len(target) : newTarget[i] = Blend(live[i], target[i])
    /\ (cfg.soft_target_tau = <<1, 1>> => newTarget = live)
    /\ (cfg.soft_target_tau = <<0, 1>> => newTarget = target)

\* C4: the synchronisation replaces every target parameter b of the actor and
\* of the critic by tau*a + (1 - tau)*b, a the live parameter after the
\* gradient steps; tau = 1 copies the live parameters, tau = 0 changes nothing.
C4_SoftUpdateLaw ==
    [][/\ pc = "sync_target_policy" =>
            Tracks(TargetPolicyParams', TargetPolicyParams, PolicyParams)
       /\ pc = "sync_target_qf" =>
            Tracks(TargetQfParams', TargetQfParams, QfParams)]_vars

\* a target moved towards live parameters that the gradient step had changed
C4_Witness ==
    /\ pc = "sync_target_qf"
    /\ cfg.soft_target_tau = <<1, 2>>
    /\ PolicyParams # heap_at_call[refs.policy]
    /\ TargetPolicyParams # heap_at_call[refs.target_policy]
    /\ TargetPolicyParams # PolicyParams

\* C5: the target parameters change only in the soft synchronisation of
\* do_training; no other step changes them, the targets are never re-cloned,
\* and a change of the live parameters never shows in the targets.
C5_TargetsOnlyTracked ==
    [][/\ refs' = refs
       /\ Len(heap') = Len(heap)
       /\ TargetPolicyParams' # TargetPolicyParams => pc = "sync_target_policy"
       /\ TargetQfParams' # TargetQfParams => pc = "sync_target_qf"]_vars

\* both gradient steps moved the live networks and the targets stayed, after
\* an evaluation and a snapshot had been made
C5_Witness ==
    /\ pc = "sync_target_policy"
    /\ snapshots # {}
    /\ PolicyParams # heap_at_call[refs.policy]
    /\ QfParams # heap_at_call[refs.qf]
    /\ TargetPolicyParams = heap_at_call[refs.target_policy]
    /\ TargetQfParams = heap_at_call[refs.target_qf]

\* the update loop of the last environment step has run to its end
UpdatesFinished ==
    \/ pc \in {"epoch_end", "evaluate", "snapshot", "epoch_close", "done"}
    \/ pc \in {"begin_step", "get_action", "env_step"} /\ itr > 0

\* C7: every environment step is followed by exactly n_updates_per_sample
\* do_training calls, each on a freshly drawn mini-batch, if pool.size >=
\* min_pool_size, and by none otherwise, also when the step's transition was
\* dropped.
C7_UpdatesPerStep ==
    /\ UpdatesFinished =>
          n_trained = IF Len(pool) >= cfg.min_pool_size
                      THEN cfg.n_updates_per_sample ELSE 0
    /\ n_trained <= cfg.n_updates_per_sample
    /\ n_trained > 0 => Len(pool) >= cfg.min_pool_size
    /\ pc = "do_training" =>
          /\ batch_fresh
          /\ Len(batch) = cfg.batch_size
          /\ \A k \in 1..Len(batch) :
                \E i \in 1..(Len(pool) - 1) : batch[k] = Transition(pool, i)
    /\ pc \in {"train_qf", "train_policy", "sync_target_policy",
               "sync_target_qf"} => ~batch_fresh

\* the updates ran after a step whose transition was dropped
C7_Witness ==
    /\ pc = "begin_step"
    /\ last_added = <<>>
    /\ n_trained = cfg.n_updates_per_sample
    /\ n_trained > 1

\* C8: evaluation and then a snapshot are made at the end of an epoch, after
\* epoch_length steps and never in between, if pool.size >= min_pool_size, and
\* neither is made otherwise; no snapshot without the epoch's evaluation.
C8_EpochEnd ==
    /\ snapshots \subseteq evaluated
    /\ \A e \in evaluated : e <= epoch
    /\ epoch \in evaluated => pc \in {"snapshot", "epoch_close", "done"}
    /\ pc \in {"epoch_end", "evaluate", "snapshot", "epoch_close"} =>
          /\ itr = (epoch + 1) * cfg.epoch_length
          /\ epoch_itr = cfg.epoch_length - 1
    /\ pc \in {"evaluate", "snapshot"} => Len(pool) >= cfg.min_pool_size
    /\ pc = "snapshot" => epoch \in evaluated /\ epoch \notin snapshots
    /\ pc = "epoch_close" =>
          /\ (epoch \in evaluated) = (Len(pool) >= cfg.min_pool_size)
          /\ (epoch \in snapshots) = (Len(pool) >= cfg.min_pool_size)

\* an epoch ended without evaluation and a later one with evaluation and snapshot
C8_Witness ==
    /\ pc = "epoch_close"
    /\ epoch = 1
    /\ 0 \notin evaluated
    /\ 1 \in snapshots

\* C9: a do_training call computes the targets from the target networks as
\* they were at its entry, then steps the critic, then steps the actor alone,
\* then synchronises the target actor and the target critic, once each.
C9_UpdateOrder ==
    /\ [](/\ (pc = "update_loop" /\ n_trained > 0) =>
                call_log = <<"targets", "train_qf", "train_policy",
                             "sync_target_policy", "sync_target_qf">>
          /\ pc = "train_qf" =>
                /\ call_log = <<"targets">>
                /\ heap = heap_at_call
                /\ \A k \in 1..Len(batch) : next_qvals[k] = TargetValue(batch[k])
          /\ pc = "sync_target_policy" =>
                /\ TargetPolicyParams = heap_at_call[refs.target_policy]
                /\ TargetQfParams = heap_at_call[refs.target_qf])
    /\ [][/\ pc = "train_qf" =>
                \A o \in DOMAIN heap : o # refs.qf => heap'[o] = heap[o]
          /\ pc = "train_policy" =>
                /\ QfParams' = QfParams
                /\ PolicyParams' # PolicyParams
                /\ \A o \in DOMAIN heap : o # refs.policy => heap'[o] = heap[o]]_vars

\* the second update of one environment step has synchronised the targets,
\* in the middle of an epoch
C9_Witness ==
    /\ pc = "update_loop"
    /\ n_trained = 2
    /\ epoch_itr = 0
    /\ Len(call_log) = 5
    /\ TargetQfParams # InitHeap[2]
    /\ QfParams # TargetQfParams

====
